---- MODULE Spec2Model ----
(***************************************************************************)
(* Assessment Session Engine of resto-test-backend: the attempt store, the *)
(* start / answer / finish handlers of server.js, the question bank        *)
(* generator of lib/generate.js and the helpers they use.                  *)
(*                                                                         *)
(* Strings the code inspects character by character (names, identifiers,   *)
(* choice letters, prompts, options) are sequences of one-character        *)
(* strings; strings the code only compares or copies are TLA+ strings.     *)
(* A question id `${key}__${rawId}` is the pair <<key, rawId>>: the three   *)
(* source keys start with different characters, so the template string is  *)
(* injective in (key, rawId), as the pair is.                              *)
(***************************************************************************)
EXTENDS Integers, Sequences, FiniteSets, TLC

VARIABLES
    NUM_QUESTIONS,   \* process.env.NUM_QUESTIONS, read once at start-up
    WEBHOOK_URL,     \* process.env.WEBHOOK_URL, "" when not configured
    finishVariant,   \* which /api/finish of the repository is deployed
    attempts,        \* the Map attemptId -> attempt
    start,           \* the current /api/start-test request: where its handler is
    delivery,        \* the current delivery call to the collector
    resp,            \* the last response emitted (none while a handler is suspended)
    probe            \* argument and result of a helper applied on its own

vars == <<NUM_QUESTIONS, WEBHOOK_URL, finishVariant, attempts, start,
          delivery, resp, probe>>

(***************************************************************************)
(* Bounds of the model.                                                    *)
(***************************************************************************)
MaxNumQuestions == 2      \* NUM_QUESTIONS ranges over 0..MaxNumQuestions
MaxDeckSize == 40         \* deck sizes percentOf is applied to
MaxTotal == 60            \* totals given to allocateCounts on its own
MaxTokens == 4            \* pieces of a string given to stripLeadingLabel
MaxBank == 4              \* questions of a bank given to shuffle on its own

(***************************************************************************)
(* Program constants.                                                      *)
(***************************************************************************)
MinTextLen == 200         \* text.trim().length < 200 is insufficient
MinNameLen == 3           \* candidateName.trim().length < 3 is invalid
MinDniLen == 5            \* {5,} of the dni pattern
NaN == -1                 \* stands for the IEEE NaN of 0 / 0

RequiredPhrase == "Realizar Test"
SourceKeys == <<"procedimiento", "maridaje", "recetario">>
SingleSources == {"procedimiento", "maridaje", "recetario"}

(***************************************************************************)
(* Character-level string helpers (String.prototype.trim, toUpperCase).    *)
(***************************************************************************)
WS == {" "}
Range(s) == {s[i] : i \in 1..Len(s)}

RECURSIVE trimStart(_)
trimStart(s) ==
    IF s # <<>> /\ Head(s) \in WS THEN trimStart(Tail(s)) ELSE s

RECURSIVE trimEnd(_)
trimEnd(s) ==
    IF s # <<>> /\ s[Len(s)] \in WS THEN trimEnd(SubSeq(s, 1, Len(s) - 1)) ELSE s

trim(s) == trimEnd(trimStart(s))

upperChar(c) ==
    CASE c = "a" -> "A" [] c = "b" -> "B" [] c = "c" -> "C" [] c = "d" -> "D"
      [] c = "e" -> "E" [] OTHER -> c

toUpperCase(s) == [i \in 1..Len(s) |-> upperChar(s[i])]

\* toLetter = (i) => String.fromCharCode(65 + i)
toLetter(i) ==
    CASE i = 0 -> "A" [] i = 1 -> "B" [] i = 2 -> "C" [] i = 3 -> "D"
      [] i = 4 -> "E" [] OTHER -> "?"

\* a table of letters with a fifth entry, E: 4
letterToIndex_five(letter) ==
    LET L == toUpperCase(trim(letter))
    IN  CASE L = <<"A">> -> 0 [] L = <<"B">> -> 1 [] L = <<"C">> -> 2
          [] L = <<"D">> -> 3 [] L = <<"E">> -> 4 [] OTHER -> -1

\* { A: 0, B: 1, C: 2, D: 3 }[L] ?? -1, L the trimmed upper-cased letter
letterToIndex(letter) ==
    LET L == toUpperCase(trim(letter))
    IN  CASE L = <<"A">> -> 0 [] L = <<"B">> -> 1 [] L = <<"C">> -> 2
          [] L = <<"D">> -> 3 [] OTHER -> -1

(***************************************************************************)
(* shuffle: Fisher-Yates over a copy; rnd[i] is the j drawn at 0-based     *)
(* index i, so 0 <= rnd[i] <= i.  The input array is left as it is.        *)
(***************************************************************************)
\* an exchange that loses a[i]
swap_overwrite(a, i, j) == [a EXCEPT ![i] = a[j]]

\* [a[i], a[j]] = [a[j], a[i]]
swap(a, i, j) == [a EXCEPT ![i] = a[j], ![j] = a[i]]

RECURSIVE shuffleFrom(_, _, _)
shuffleFrom(a, i, rnd) ==
    IF i > 0 THEN shuffleFrom(swap(a, i + 1, rnd[i] + 1), i - 1, rnd) ELSE a

shuffle(arr, rnd) == shuffleFrom(arr, Len(arr) - 1, rnd)

\* the draws j = Math.floor(Math.random() * (i + 1)) of a shuffle of n
\* elements: one j in 0..i for every i from n - 1 down to 1
Draws(n) == {r \in [1..(n - 1) -> 0..(n - 1)] : \A i \in 1..(n - 1) : r[i] <= i}

slice(a, n) == SubSeq(a, 1, IF n < Len(a) THEN n ELSE Len(a))

(***************************************************************************)
(* allocateCounts: base for each source, the remainder one unit at a time  *)
(* in the order procedimiento, maridaje, recetario.                        *)
(***************************************************************************)
\* an order that hands the first unit of the remainder to recetario
order_recetarioFirst == <<"recetario", "maridaje", "procedimiento">>

\* const order = ["procedimiento", "maridaje", "recetario"]
order == <<"procedimiento", "maridaje", "recetario">>

RECURSIVE allocLoop(_, _, _)
allocLoop(out, remainder, i) ==
    IF i > Len(order) \/ remainder <= 0 THEN out
    ELSE allocLoop([out EXCEPT ![order[i]] = @ + 1], remainder - 1, i + 1)

allocateCounts_noRemainder(total) ==
    [k \in SingleSources |-> total \div 3]

allocateCounts(total) ==
    allocLoop([k \in SingleSources |-> total \div 3], total % 3, 1)

(***************************************************************************)
(* stripLeadingLabel / normalizeQuestion.  The pattern                     *)
(* /^\s*([A-Da-d]|[1-4])[\)\.\-:]\s+/ is removed twice from the trimmed    *)
(* string, and the result is trimmed.                                      *)
(***************************************************************************)
LabelChars == {"A", "B", "C", "D", "a", "b", "c", "d", "1", "2", "3", "4"}
LabelPunct == {")", ".", "-", ":"}

removeLabel(s) ==
    LET t == trimStart(s)
    IN  IF Len(t) >= 3 /\ t[1] \in LabelChars /\ t[2] \in LabelPunct /\ t[3] \in WS
        THEN trimStart(SubSeq(t, 3, Len(t)))
        ELSE s

stripLeadingLabel(str) == trim(removeLabel(removeLabel(trim(str))))

normalizeQuestion(q) ==
    [q EXCEPT !.prompt = stripLeadingLabel(q.prompt),
              !.options = [i \in 1..Len(q.options) |-> stripLeadingLabel(q.options[i])]]

(***************************************************************************)
(* generateQuestionBank, from the parsed response of the generative model  *)
(* on: parsed is what JSON.parse gave (or that it threw), rnd the draws of *)
(* shuffle.                                                                *)
(***************************************************************************)
GenErr(e, i) == [ok |-> FALSE, error |-> e, at |-> i, bank |-> <<>>]
GenOk(b) == [ok |-> TRUE, error |-> "", at |-> 0, bank |-> b]

\* !q.id || !q.prompt || !Array.isArray(q.options) || q.options.length !== 4
badShape(q) == q.id = "" \/ q.prompt = <<>> \/ Len(q.options) # 4
\* typeof q.correctIndex !== "number" || q.correctIndex < 0 || q.correctIndex > 3
badIndex(q) == q.correctIndex < 0 \/ q.correctIndex > 3

invalidAt(selected) ==
    {i \in 1..Len(selected) : badShape(selected[i]) \/ badIndex(selected[i])}

firstInvalid(selected) ==
    CHOOSE i \in invalidAt(selected) : \A j \in invalidAt(selected) : i <= j

\* a generator that hands back all the questions it was given
generateQuestionBank_noSlice(parsed, rnd, num) ==
    IF parsed.kind = "malformed" THEN GenErr("GenerationMalformed", 0)
    ELSE IF parsed.kind # "array" \/ Len(parsed.questions) < num
         THEN GenErr("GenerationInsufficient", 0)
    ELSE LET selected == shuffle(parsed.questions, rnd)
         IN  IF invalidAt(selected) # {}
             THEN GenErr("QuestionInvalid", firstInvalid(selected))
             ELSE GenOk(selected)

generateQuestionBank(parsed, rnd, num) ==
    IF parsed.kind = "malformed" THEN GenErr("GenerationMalformed", 0)
    ELSE IF parsed.kind # "array" \/ Len(parsed.questions) < num
         THEN GenErr("GenerationInsufficient", 0)
    ELSE LET selected == slice(shuffle(parsed.questions, rnd), num)
         IN  IF invalidAt(selected) # {}
             THEN GenErr("QuestionInvalid", firstInvalid(selected))
             ELSE GenOk(selected)

(***************************************************************************)
(* Inputs of the requests and answers of the outside world.                *)
(***************************************************************************)
GoodName == <<"J", "a", "n", "e">>
GoodDni == <<" ", "I", "D", "1", "2", "3", "4", "5">>
StartInput(n, d, c, src) ==
    [candidateName |-> n, dni |-> d, startCommand |-> c, source |-> src]
SourceSelectors == { "procedimiento", "all" }
StartInputs ==
    { StartInput(GoodName, GoodDni, RequiredPhrase, src) : src \in SourceSelectors }
    \cup { StartInput(n, GoodDni, RequiredPhrase, "all") :
              n \in { <<>>, <<" ", "J", "o", " ">> } }
    \cup { StartInput(GoodName, d, RequiredPhrase, "all") :
              d \in { <<>>, <<"1", "2", "3", "4">>, <<"I", "D", " ", "1", "2", "3">> } }
    \cup { StartInput(GoodName, GoodDni, "realizar test", src) :
              src \in SourceSelectors }
    \cup { StartInput(<<>>, <<>>, "", "all") }

ChoiceInputs == { <<"A">>, <<" ", "b", " ">>, <<"E">>, <<>> }
\* the attempt id crypto.randomUUID() gives the start, and one it never gave
TheAttempt == "uuid-1"
AttemptIds == { TheAttempt, "uuid-x" }
\* an id generator that gives every start the same id
randomUUID_same(store) == TheAttempt

\* crypto.randomUUID(): an id no stored attempt has
randomUUID(store) == IF TheAttempt \in DOMAIN store THEN "uuid-2" ELSE TheAttempt
\* the ids a candidate sends: those of the served deck, and one that is not
StrayQuestion == <<"", "q1">>
QuestionIdsFor(store, a) ==
    (IF a \in DOMAIN store
     THEN {store[a].questions[i].id : i \in 1..Len(store[a].questions)}
     ELSE {})
    \cup { StrayQuestion }

\* what the generative model may answer
Item(id, ci) ==
    [id |-> id,
     prompt |-> <<"1", ".", " ", "A", ")", " ", "p">>,
     options |-> << <<"A", ")", " ", "u">>, <<"b", ".", " ", "v">>,
                    <<"w">>, <<"D", ")">> >>,
     correctIndex |-> ci]
\* an item whose prompt is white space only: a string, so the output schema
\* allows it, and truthy, so !q.prompt lets it through
BlankPrompt == [Item("q2", 1) EXCEPT !.prompt = <<" ">>]
GenItems == { Item("q1", 0), BlankPrompt, Item("q3", 4) }
GenLens(num) == {n \in (num - 1)..(num + 1) : n >= 0}
GenResponses(num) ==
    { [kind |-> "malformed", questions |-> <<>>],
      [kind |-> "noarray", questions |-> <<>>] }
    \cup { [kind |-> "array", questions |-> qs] :
             qs \in UNION { [1..n -> GenItems] : n \in GenLens(num) } }

\* what extractMainTextFromUrl may do: throw, or return a text of some
\* trimmed length
ExtractOutcomes ==
    { [ok |-> FALSE, error |-> "SourceUnreachable", len |-> 0],
      [ok |-> FALSE, error |-> "ExtractionEmpty", len |-> 0],
      [ok |-> TRUE, error |-> "", len |-> MinTextLen - 1],
      [ok |-> TRUE, error |-> "", len |-> MinTextLen] }

\* what the collector may do with a delivery
DeliveryOutcomes == {"2xx", "non2xx", "neterror", "timeout"}

(***************************************************************************)
(* Validation of /api/start-test.                                          *)
(***************************************************************************)
DniChars == {"I", "D", "1", "2", "3", "4", "5", "-"}

validName(n) == n # <<>> /\ Len(trim(n)) >= MinNameLen
validDni(d) ==
    /\ d # <<>>
    /\ Len(trim(d)) >= MinDniLen
    /\ Range(trim(d)) \subseteq DniChars
validPhrase(c) == c = RequiredPhrase

validationError_noPhrase(input) ==
    IF ~validName(input.candidateName) THEN "NameInvalid"
    ELSE IF ~validDni(input.dni) THEN "DniInvalid"
    ELSE ""

validationError(input) ==
    IF ~validName(input.candidateName) THEN "NameInvalid"
    ELSE IF ~validDni(input.dni) THEN "DniInvalid"
    ELSE IF ~validPhrase(input.startCommand) THEN "PhraseInvalid"
    ELSE ""

(***************************************************************************)
(* Responses.                                                              *)
(***************************************************************************)
NoResp == [op |-> "none", status |-> 0, error |-> ""]
ErrResp(op, status, error) == [op |-> op, status |-> status, error |-> error]

\* a response that hands out the stored questions as they are
projection_whole(deck) == deck

\* questions.map((q) => ({ id, prompt, options }))
projection(deck) ==
    [i \in 1..Len(deck) |->
        [id |-> deck[i].id, prompt |-> deck[i].prompt, options |-> deck[i].options]]

StartOk(attemptId, title, deck) ==
    [op |-> "start", status |-> 200, error |-> "", attemptId |-> attemptId,
     sourceTitle |-> title, numQuestions |-> Len(deck),
     questions |-> projection(deck)]

(***************************************************************************)
(* The attempt a start stores.                                             *)
(***************************************************************************)
\* { ...q, id: `${key}__${q.id}`, source: key }
tag(q, key) ==
    [id |-> <<key, q.id>>, prompt |-> q.prompt, options |-> q.options,
     correctIndex |-> q.correctIndex, source |-> key]

tagAll(bank, key) == [i \in 1..Len(bank) |-> tag(bank[i], key)]
normalizeAll(bank) == [i \in 1..Len(bank) |-> normalizeQuestion(bank[i])]

\* new Date().toISOString() as the handler reaches attempts.set: the clock
\* of the model ticks once for every awaited call of the handler that settled
now(st) == st.fetches + st.gens

newAttempt(input, urls, title, startedAt, deck) ==
    [dni |-> input.dni, candidateName |-> input.candidateName, urls |-> urls,
     title |-> title, startedAt |-> startedAt, questions |-> deck,
     answers |-> <<>>]

IdleStart ==
    [pc |-> "idle", input |-> <<>>, keys |-> <<>>, k |-> 0, banks |-> <<>>,
     fetches |-> 0, gens |-> 0]

DoneStart(st) ==
    [st EXCEPT !.pc = "done", !.keys = <<>>, !.k = 0, !.banks = <<>>]

(***************************************************************************)
(* POST /api/start-test.  The handler runs to its first await in one step  *)
(* (validation, choice of the sources, first extraction call issued), and  *)
(* then one step per awaited call that settles.  A run holds one attempt:  *)
(* a start may be asked again as long as none was stored.                  *)
(***************************************************************************)
keysOf(source) ==
    IF source \in SingleSources THEN <<source>> ELSE SourceKeys

StartRequest(input) ==
    /\ start.pc \in {"idle", "done"}
    /\ IF validationError(input) # ""
       THEN /\ start' = DoneStart([IdleStart EXCEPT !.input = input])
            /\ resp' = ErrResp("start", 400, validationError(input))
       ELSE /\ start' = [IdleStart EXCEPT !.pc = "extract", !.input = input,
                                          !.keys = keysOf(input.source),
                                          !.k = 1, !.fetches = 1]
            /\ resp' = NoResp
    /\ UNCHANGED <<NUM_QUESTIONS, WEBHOOK_URL, finishVariant, attempts,
                   delivery, probe>>

\* a run of the server on its own holds one attempt: start is asked again
\* only as long as none was stored
StartCall(input) == attempts = <<>> /\ StartRequest(input)

\* a gate that lets every text pass that is not empty
insufficient_onlyEmpty(out) == out.len = 0

\* !text || text.trim().length < 200, on the text of a settled extraction
insufficient(out) == out.len < MinTextLen

\* await extractMainTextFromUrl(...) settles for source keys[k]
StartExtracted(out) ==
    /\ start.pc = "extract"
    /\ IF ~out.ok
       THEN /\ start' = DoneStart(start)
            /\ resp' = ErrResp("start", 500, out.error)
       ELSE IF insufficient(out)
       THEN /\ start' = DoneStart(start)
            /\ resp' = ErrResp("start", 500, "ExtractionInsufficient")
       ELSE IF start.k < Len(start.keys)
       THEN /\ start' = [start EXCEPT !.k = @ + 1, !.fetches = @ + 1]
            /\ resp' = resp
       ELSE /\ start' = [start EXCEPT !.pc = "generate", !.k = 1, !.gens = 1]
            /\ resp' = resp
    /\ UNCHANGED <<NUM_QUESTIONS, WEBHOOK_URL, finishVariant, attempts,
                   delivery, probe>>

\* what a call of generateQuestionBank may settle with
GenResults(num) ==
    { generateQuestionBank(parsed, rnd, num) :
        parsed \in GenResponses(num), rnd \in Draws(num + 1) }

\* a selection that takes the whole bank of the source
selectFrom_all(bank, key, need, rnd) == tagAll(shuffle(bank, rnd), key)

\* shuffle(banks[key]).slice(0, need).map(tag), for the i-th key
selectFrom(bank, key, need, rnd) == tagAll(slice(shuffle(bank, rnd), need), key)

\* what the selection from one bank can be
Selections(bank, key, need) ==
    { selectFrom(bank, key, need, rnd) : rnd \in Draws(Len(bank)) }

\* the combined deck: the three selections concatenated, then shuffled
combine(s1, s2, s3, rndAll) == shuffle(s1 \o s2 \o s3, rndAll)

\* a store that holds one attempt: a new one takes the place of the others
storeAttempt_single(store, id, result, att) ==
    IF result.ok THEN (id :> att) ELSE store

\* a handler that stores the attempt before it knows the bank was generated
storeAttempt_early(store, id, result, att) == (id :> att) @@ store

\* attempts.set(attemptId, {...}) is reached only past the generation catch
storeAttempt(store, id, result, att) ==
    IF result.ok THEN (id :> att) @@ store ELSE store

\* await generateQuestionBank(...) settles; a single source was asked for
StartGeneratedSingle(result) ==
    LET key == start.keys[1]
        deck == tagAll(normalizeAll(result.bank), key)
        att == newAttempt(start.input, <<key>>, key, now(start), deck)
    IN  /\ start.pc = "generate"
        /\ Len(start.keys) = 1
        /\ attempts' = storeAttempt(attempts, randomUUID(attempts), result, att)
        /\ start' = DoneStart(start)
        /\ resp' = IF ~result.ok THEN ErrResp("start", 500, result.error)
                   ELSE StartOk(randomUUID(attempts), key, deck)
        /\ UNCHANGED <<NUM_QUESTIONS, WEBHOOK_URL, finishVariant, delivery, probe>>

\* default case, the bank of one of the first two sources settles
StartGeneratedNext(result) ==
    /\ start.pc = "generate"
    /\ Len(start.keys) > 1
    /\ start.k < Len(start.keys)
    /\ IF ~result.ok
       THEN /\ start' = DoneStart(start)
            /\ resp' = ErrResp("start", 500, result.error)
       ELSE /\ start' = [start EXCEPT !.k = @ + 1, !.gens = @ + 1,
                                      !.banks = Append(@, normalizeAll(result.bank))]
            /\ resp' = resp
    /\ UNCHANGED <<NUM_QUESTIONS, WEBHOOK_URL, finishVariant, attempts,
                   delivery, probe>>

\* the decks the selections and the final shuffle can produce
CombinedDecks(banks, counts) ==
    UNION { { combine(s1, s2, s3, rndAll) :
                rndAll \in Draws(Len(s1) + Len(s2) + Len(s3)) } :
            s1 \in Selections(banks[1], SourceKeys[1], counts[SourceKeys[1]]),
            s2 \in Selections(banks[2], SourceKeys[2], counts[SourceKeys[2]]),
            s3 \in Selections(banks[3], SourceKeys[3], counts[SourceKeys[3]]) }

\* default case, the bank of the last source: select, tag, combine, store
StartGeneratedLast(result) ==
    LET banks == Append(start.banks, normalizeAll(result.bank))
        decks == IF result.ok THEN CombinedDecks(banks, allocateCounts(NUM_QUESTIONS))
                 ELSE {<<>>}
        title == "Procedimiento / Maridaje / Recetario"
    IN  /\ start.pc = "generate"
        /\ Len(start.keys) > 1
        /\ start.k = Len(start.keys)
        /\ \E deck \in decks :
              /\ attempts' = storeAttempt(attempts, randomUUID(attempts), result,
                                 newAttempt(start.input, SourceKeys, title, now(start),
                                            deck))
              /\ resp' = IF ~result.ok THEN ErrResp("start", 500, result.error)
                         ELSE StartOk(randomUUID(attempts),
                                      "Pez Vela - Manuales (3 fuentes)", deck)
        /\ start' = DoneStart(start)
        /\ UNCHANGED <<NUM_QUESTIONS, WEBHOOK_URL, finishVariant, delivery, probe>>

(***************************************************************************)
(* POST /api/answer.                                                       *)
(***************************************************************************)
\* array.find: the first element that matches, 0 for undefined
findQuestion(questions, questionId) ==
    LET hits == {i \in 1..Len(questions) : questions[i].id = questionId}
    IN  IF hits = {} THEN 0 ELSE CHOOSE i \in hits : \A j \in hits : i <= j

\* a lookup that never finds a stored answer
findAnswer_none(answers, questionId) == 0

\* attempt.answers.find((a) => a.questionId === questionId)
findAnswer(answers, questionId) ==
    LET hits == {i \in 1..Len(answers) : answers[i].questionId = questionId}
    IN  IF hits = {} THEN 0 ELSE CHOOSE i \in hits : \A j \in hits : i <= j

newAnswer(questionId, idx) ==
    [questionId |-> questionId, choiceIndex |-> idx, choiceLetter |-> toLetter(idx)]

\* a handler that overwrites the stored answer (last answer wins)
pushAnswer_overwrite(answers, questionId, idx) ==
    IF findAnswer(answers, questionId) = 0
    THEN Append(answers, newAnswer(questionId, idx))
    ELSE [answers EXCEPT ![findAnswer(answers, questionId)] = newAnswer(questionId, idx)]

\* a handler without the duplicate guard
pushAnswer_always(answers, questionId, idx) ==
    Append(answers, newAnswer(questionId, idx))

\* if (!already) attempt.answers.push({...})
pushAnswer(answers, questionId, idx) ==
    IF findAnswer(answers, questionId) = 0
    THEN Append(answers, newAnswer(questionId, idx))
    ELSE answers

\* { ok: true }, with what the handler derived and found
AnswerOk(idx, already) ==
    [op |-> "answer", status |-> 200, error |-> "", idx |-> idx,
     already |-> already]

\* a handler that looks at the letter before it looks up attempt and question
answerError_choiceFirst(store, attemptId, questionId, choice) ==
    IF letterToIndex(choice) < 0 THEN "InvalidChoice"
    ELSE IF attemptId \notin DOMAIN store THEN "AttemptNotFound"
    ELSE IF findQuestion(store[attemptId].questions, questionId) = 0
         THEN "QuestionNotFound"
    ELSE ""

\* a handler that accepts an answer to a question the deck does not hold
answerError_anyQuestion(store, attemptId, questionId, choice) ==
    IF attemptId \notin DOMAIN store THEN "AttemptNotFound"
    ELSE IF letterToIndex(choice) < 0 THEN "InvalidChoice"
    ELSE ""

\* the checks of the handler, in the order the code makes them
answerError(store, attemptId, questionId, choice) ==
    IF attemptId \notin DOMAIN store THEN "AttemptNotFound"
    ELSE IF findQuestion(store[attemptId].questions, questionId) = 0
         THEN "QuestionNotFound"
    ELSE IF letterToIndex(choice) < 0 THEN "InvalidChoice"
    ELSE ""

answerStatus(error) == IF error = "AttemptNotFound" THEN 404 ELSE 400

RecordAnswer(attemptId, questionId, choice) ==
    LET err == answerError(attempts, attemptId, questionId, choice)
        idx == letterToIndex(choice)
    IN  /\ IF err # ""
           THEN /\ resp' = ErrResp("answer", answerStatus(err), err)
                /\ attempts' = attempts
           ELSE /\ resp' = AnswerOk(idx,
                        findAnswer(attempts[attemptId].answers, questionId) # 0)
                /\ attempts' =
                     [attempts EXCEPT ![attemptId].answers =
                        pushAnswer(@, questionId, idx)]
        /\ UNCHANGED <<NUM_QUESTIONS, WEBHOOK_URL, finishVariant, start,
                       delivery, probe>>

(***************************************************************************)
(* POST /api/finish.                                                       *)
(***************************************************************************)
\* a gate that only refuses an attempt nobody answered
incomplete_noneAnswered(att) == Len(att.answers) = 0 /\ Len(att.questions) > 0

\* attempt.answers.length !== attempt.questions.length
incomplete(att) == Len(att.answers) # Len(att.questions)

\* one entry of outQuestions; ans is read without a guard, so a question
\* without an answer makes the handler throw
outQuestion(q, answers) ==
    LET a == findAnswer(answers, q.id)
    IN  IF a = 0 THEN [threw |-> TRUE]
        ELSE [threw |-> FALSE, id |-> q.id, fuente |-> q.source,
              respuestaSeleccionada |-> q.options[answers[a].choiceIndex + 1],
              respuestaCorrecta |-> q.options[q.correctIndex + 1],
              letraSeleccionada |-> answers[a].choiceLetter,
              letraCorrecta |-> toLetter(q.correctIndex),
              acierto |-> answers[a].choiceIndex = q.correctIndex]

outQuestions(att) ==
    [i \in 1..Len(att.questions) |-> outQuestion(att.questions[i], att.answers)]

\* let score = 0; ... if (isCorrect) score++
RECURSIVE scoreUpTo(_, _)
scoreUpTo(outs, i) ==
    IF i = 0 THEN 0
    ELSE scoreUpTo(outs, i - 1) + (IF outs[i].acierto THEN 1 ELSE 0)

(***************************************************************************)
(* Number arithmetic of the percent.  score / total and the product by 100 *)
(* are IEEE-754 binary64 operations, each rounded to nearest, ties to      *)
(* even.  The 53 significant bits of a Number do not fit one 32-bit        *)
(* integer, so they are kept in limbs.                                     *)
(***************************************************************************)
RECURSIVE pow2(_)
pow2(n) == IF n = 0 THEN 1 ELSE 2 * pow2(n - 1)

RECURSIVE leadShift(_, _, _)
\* the k with n <= s * 2^k < 2n, for 0 < s <= n
leadShift(s, n, k) == IF s >= n THEN k ELSE leadShift(2 * s, n, k + 1)

\* score / total, for 0 < score <= total < 2^11: the quotient is
\* (hi * 2^32 + mid * 2^12 + lo) * 2^(-52 - shift), its bits found by long
\* division (20, 20 and 13 at a time, the last one being the rounding bit)
divide(score, total) ==
    LET k == leadShift(score, total, 0)
        r0 == score * pow2(k) - total
        d1 == (r0 * pow2(20)) \div total
        r1 == (r0 * pow2(20)) % total
        d2 == (r1 * pow2(20)) \div total
        r2 == (r1 * pow2(20)) % total
        d3 == (r2 * pow2(13)) \div total
        r3 == (r2 * pow2(13)) % total
        up == d3 % 2 = 1 /\ (r3 # 0 \/ (d3 \div 2) % 2 = 1)
        lo == (d3 \div 2) + (IF up THEN 1 ELSE 0)
        mid == d2 + (lo \div pow2(12))
    IN  [hi |-> pow2(20) + d1 + (mid \div pow2(20)), mid |-> mid % pow2(20),
         lo |-> lo % pow2(12), shift |-> k]

\* x * 100: the exact product has 59 or 60 bits, of which 53 are kept; the
\* result is (high * 2^lowBits + low) * 2^(-shift)
timesHundred(x) ==
    LET L == x.lo * 100
        M == x.mid * 100 + (L \div pow2(12))
        H == x.hi * 100 + (M \div pow2(20))
        lo == L % pow2(12)
        mid == M % pow2(20)
        d == IF H < pow2(27) THEN 6 ELSE 7
        kept == mid * pow2(12 - d) + (lo \div pow2(d))
        half == (lo \div pow2(d - 1)) % 2
        up == half = 1 /\ (lo % pow2(d - 1) # 0 \/ kept % 2 = 1)
        low == kept + (IF up THEN 1 ELSE 0)
    IN  [high |-> H + (low \div pow2(32 - d)), low |-> low % pow2(32 - d),
         lowBits |-> 32 - d, shift |-> x.shift + 52 - d]

\* v / 2^n without its fraction, for v < 2^30
shiftRight(v, n) == IF n >= 30 THEN 0 ELSE v \div pow2(n)

\* Math.round: the nearest integer, a tie going up; the integer part and
\* the first bit after the point both lie in the high limb
mathRound(y) ==
    LET t == y.shift - y.lowBits
    IN  shiftRight(y.high, t) + (shiftRight(y.high, t - 1) % 2)

\* Math.round((score / total) * 100); 0 / 0 is NaN
percentOf(score, total) ==
    IF total = 0 THEN NaN
    ELSE IF score = 0 THEN 0
    ELSE mathRound(timesHundred(divide(score, total)))

\* resultForStudent and finalJson
payloadOf(attemptId, att) ==
    LET outs == outQuestions(att)
        total == Len(att.questions)
        score == scoreUpTo(outs, total)
    IN  [score |-> score, total |-> total, percent |-> percentOf(score, total),
         nombre |-> att.candidateName, dni |-> att.dni, intentoId |-> attemptId,
         fuentes |-> att.urls, preguntas |-> outs]

\* postJSON of the handler that awaits it: it never throws
postJSON(outcome) ==
    CASE outcome = "2xx" -> [ok |-> TRUE, status |-> 200]
      [] outcome = "non2xx" -> [ok |-> FALSE, status |-> 500]
      [] OTHER -> [ok |-> FALSE, status |-> 0]

WebhookDisabled == [ok |-> FALSE, status |-> 0]

\* a handler that lets a failed delivery fail the request
finishResponse_failOnWebhook(attemptId, payload, webhookResult) ==
    IF webhookResult.ok
    THEN [op |-> "finish", status |-> 200, error |-> "", attemptId |-> attemptId,
          body |-> payload, webhook |-> webhookResult]
    ELSE ErrResp("finish", 500, "FinishFailed")

\* res.json({ resultForStudent, finalJson, webhook })
finishResponse(attemptId, payload, webhookResult) ==
    [op |-> "finish", status |-> 200, error |-> "", attemptId |-> attemptId,
     body |-> payload, webhook |-> webhookResult]

\* res.json({ resultForStudent, finalJson }) of the detached handler
finishResponseDetached(attemptId, payload) ==
    [op |-> "finish", status |-> 200, error |-> "", attemptId |-> attemptId,
     body |-> payload]

\* a handler that never waits for postJSON
awaitsDelivery_never(variant) == FALSE

\* whether the handler awaits postJSON before it answers
awaitsDelivery(variant) == variant = "awaited"

NoDelivery ==
    [state |-> "none", awaited |-> FALSE, attemptId |-> "", pending |-> <<>>,
     requests |-> 0]

\* the checks of the handler before it scores
finishError(store, attemptId) ==
    IF attemptId \notin DOMAIN store THEN "AttemptNotFound"
    ELSE IF incomplete(store[attemptId]) THEN "IncompleteAttempt"
    ELSE IF \E i \in 1..Len(store[attemptId].questions) :
               outQuestions(store[attemptId])[i].threw
         THEN "FinishFailed"
    ELSE ""

finishStatus(error) ==
    CASE error = "AttemptNotFound" -> 404
      [] error = "IncompleteAttempt" -> 400
      [] OTHER -> 500

\* a handler that posts whatever the configuration
deliveryEnabled_always(url) == TRUE

\* if (WEBHOOK_URL)
deliveryEnabled(url) == url # ""

\* the handler up to its first await, or to its response
FinishCall(attemptId) ==
    LET err == finishError(attempts, attemptId)
        payload == payloadOf(attemptId, attempts[attemptId])
    IN  /\ delivery.state # "inflight"
        /\ IF err # ""
           THEN /\ resp' = ErrResp("finish", finishStatus(err), err)
                /\ delivery' = delivery
           ELSE IF ~deliveryEnabled(WEBHOOK_URL)
           THEN /\ resp' = IF finishVariant = "awaited"
                           THEN finishResponse(attemptId, payload, WebhookDisabled)
                           ELSE finishResponseDetached(attemptId, payload)
                /\ delivery' = delivery
           ELSE IF awaitsDelivery(finishVariant)
           THEN \* webhookResult = await postJSON(WEBHOOK_URL, finalJson)
                /\ resp' = NoResp
                /\ delivery' = [state |-> "inflight", awaited |-> TRUE,
                                attemptId |-> attemptId, pending |-> payload,
                                requests |-> 1]
           ELSE \* postJSON(...).then(...).catch(...); return res.json(...)
                /\ resp' = finishResponseDetached(attemptId, payload)
                /\ delivery' = [state |-> "inflight", awaited |-> FALSE,
                                attemptId |-> attemptId, pending |-> <<>>,
                                requests |-> 1]
        /\ UNCHANGED <<NUM_QUESTIONS, WEBHOOK_URL, finishVariant, attempts,
                       start, probe>>

\* a postJSON that calls fetch a second time when the first one timed out
fetchAgain_onTimeout(outcome, requests) == outcome = "timeout" /\ requests < 2

\* postJSON holds one fetch and no loop: whatever the fetch settles with,
\* the try or the catch returns
fetchAgain(outcome, requests) == FALSE

\* the delivery call settles: the awaiting handler answers, the detached
\* one has answered already and only logs.  requests counts the calls of
\* fetch the postJSON of this finish has made.
DeliverySettles(outcome) ==
    /\ delivery.state = "inflight"
    /\ IF fetchAgain(outcome, delivery.requests)
       THEN /\ delivery' = [delivery EXCEPT !.requests = @ + 1]
            /\ resp' = resp
       ELSE /\ delivery' = [delivery EXCEPT !.state = outcome, !.awaited = FALSE,
                                            !.pending = <<>>]
            /\ resp' = IF delivery.awaited
                       THEN finishResponse(delivery.attemptId, delivery.pending,
                                           postJSON(outcome))
                       ELSE resp
    /\ UNCHANGED <<NUM_QUESTIONS, WEBHOOK_URL, finishVariant, attempts,
                   start, probe>>

(***************************************************************************)
(* lib/extract.js: fetchWithRetry and extractMainTextFromUrl.              *)
(***************************************************************************)
tries == 3
timeoutMs == 20000

\* what one fetch(finalUrl) settles with: a response (redirects already
\* followed), the abort raised at timeoutMs, or another rejection of fetch
Response(status) == [kind |-> "response", status |-> status]
Aborted == [kind |-> "AbortError", status |-> 0]
Rejected == [kind |-> "FetchError", status |-> 0]
FetchStatuses == {200, 403, 404, 500, 503}
FetchOutcomes == {Response(s) : s \in FetchStatuses} \cup {Aborted, Rejected}

\* res.ok
ok(res) == res.kind = "response" /\ res.status >= 200 /\ res.status <= 299

\* a loop that hands every response back, whatever its status
returnsResponse_anyStatus(o) == o.kind = "response"

\* `return res` is reached: fetch resolved and res.status >= 500 is false
returnsResponse(o) == o.kind = "response" /\ o.status < 500

\* lastErr set by a failed attempt: `HTTP ${res.status}`, `Timeout tras
\* ${timeoutMs} ms` for an AbortError, the rejection itself otherwise
lastErrOf(o) ==
    IF o.kind = "response" THEN [message |-> "HTTP", n |-> o.status]
    ELSE IF o.kind = "AbortError" THEN [message |-> "Timeout tras", n |-> timeoutMs]
    ELSE [message |-> o.kind, n |-> 0]

NoErr == [message |-> "", n |-> 0]

\* a loop that allows one attempt more
loopContinues_oneMore(i) == i <= tries

\* the loop condition i < tries
loopContinues(i) == i < tries

\* sleep(500 * (i + 1))
backoff(i) == 500 * (i + 1)

\* what extractMainTextFromUrl settles with
Threw(error, cause) == [threw |-> TRUE, error |-> error, cause |-> cause, len |-> 0]
Extracted(len) == [threw |-> FALSE, error |-> "", cause |-> NoErr, len |-> len]
Pending == [threw |-> FALSE, error |-> "pending", cause |-> NoErr, len |-> 0]

\* what the body of an ok response holds: its kind and the length of the
\* text the PDF reader or Readability finds in it
Bodies == [kind : {"pdf", "html"}, len : {0, 1, MinTextLen}]

\* the PDF and the HTML branch of extractMainTextFromUrl
extractBody(body) ==
    IF body.kind = "pdf"
    THEN IF body.len = 0 THEN Threw("No se pudo extraer texto del PDF.", NoErr)
         ELSE Extracted(body.len)
    ELSE IF body.len = 0
         THEN Threw("No se pudo extraer contenido legible de la pagina HTML.", NoErr)
         ELSE Extracted(body.len)

\* timer is the timeout withTimeout sets for the request in flight; overdue
\* tells that timeoutMs have passed since the request of the attempt began
FetchStart ==
    [fn |-> "extractMainTextFromUrl", pc |-> "fetch", i |-> 0,
     requests |-> <<>>, lastErr |-> NoErr, slept |-> 0, out |-> Pending,
     timer |-> "armed", overdue |-> FALSE]

\* the attempt failed with o: lastErr, the backoff, and the next iteration
\* or the throw that follows the last one
failed(p, o) ==
    IF loopContinues(p.i + 1)
    THEN [p EXCEPT !.lastErr = lastErrOf(o), !.slept = @ + backoff(p.i),
             !.i = @ + 1, !.pc = "fetch", !.timer = "armed", !.overdue = FALSE]
    ELSE [p EXCEPT !.lastErr = lastErrOf(o), !.slept = @ + backoff(p.i),
             !.i = @ + 1, !.pc = "done", !.timer = "cleared",
             !.out = Threw("No se pudo descargar la URL (url):", lastErrOf(o))]

\* one iteration of the loop of fetchWithRetry, up to its return, its next
\* iteration or the throw that follows the last one; a returned response
\* goes through `if (!res.ok) throw` of extractMainTextFromUrl
FetchAttempt(o) ==
    /\ probe.fn = "extractMainTextFromUrl"
    /\ probe.pc = "fetch"
    /\ probe' =
         IF returnsResponse(o)
         THEN IF ok(o)
              THEN [probe EXCEPT !.requests = Append(@, o), !.pc = "body",
                       !.timer = "cleared"]
              ELSE [probe EXCEPT !.requests = Append(@, o), !.pc = "done",
                       !.timer = "cleared",
                       !.out = Threw("No se pudo descargar la URL:",
                                     [message |-> "", n |-> o.status])]
         ELSE failed([probe EXCEPT !.requests = Append(@, o)], o)
    /\ UNCHANGED <<NUM_QUESTIONS, WEBHOOK_URL, finishVariant, attempts,
                   start, delivery, resp>>

\* timeoutMs have passed since the request began and the body of the ok
\* response is still being read: a timer that is armed aborts the request,
\* one that promise.finally cleared when fetch resolved does nothing
BodyOverdue ==
    /\ probe.fn = "extractMainTextFromUrl"
    /\ probe.pc = "body"
    /\ ~probe.overdue
    /\ probe' = IF probe.timer = "armed" THEN failed(probe, Aborted)
                ELSE [probe EXCEPT !.overdue = TRUE]
    /\ UNCHANGED <<NUM_QUESTIONS, WEBHOOK_URL, finishVariant, attempts,
                   start, delivery, resp>>

\* the body of the ok response is read and its text extracted
FetchBody(body) ==
    /\ probe.fn = "extractMainTextFromUrl"
    /\ probe.pc = "body"
    /\ probe' = [probe EXCEPT !.pc = "done", !.out = extractBody(body)]
    /\ UNCHANGED <<NUM_QUESTIONS, WEBHOOK_URL, finishVariant, attempts,
                   start, delivery, resp>>

(***************************************************************************)
(* Extraction of several sources: extractMany of lib/extract.js, used by   *)
(* the handler of server.js, and the loop of the combined mode of          *)
(* /api/start-test, which calls extractMainTextFromUrl itself.             *)
(***************************************************************************)
\* what extractMainTextFromUrl settles with for one source of several: the
\* outcomes of ExtractOutcomes, or the throw on a response that is not ok
ManyOutcomes ==
    ExtractOutcomes \cup {[ok |-> FALSE, error |-> "DownloadFailed", len |-> 0]}

ManyStart(fn) ==
    [fn |-> fn, done |-> FALSE, k |-> 1, tried |-> 0, results |-> <<>>,
     errors |-> <<>>, out |-> [threw |-> FALSE, detail |-> "", texts |-> <<>>]]

\* a cause that is the one of the last failed source
firstCause_last(errors) ==
    IF errors = <<>> THEN "No se pudo extraer texto de las fuentes."
    ELSE errors[Len(errors)].error

\* errors[0]?.error || "No se pudo extraer texto de las fuentes."
firstCause(errors) ==
    IF errors = <<>> THEN "No se pudo extraer texto de las fuentes."
    ELSE errors[1].error

\* the texts of the results, joined; blank only if no result holds text
joined(results) == [i \in 1..Len(results) |-> results[i].key]
blank(results) == \A i \in 1..Len(results) : results[i].len = 0

\* what extractMany settles with once the loop is over
manyOutcome(results, errors) ==
    IF blank(results)
    THEN [threw |-> TRUE, detail |-> firstCause(errors), texts |-> <<>>]
    ELSE [threw |-> FALSE, detail |-> "", texts |-> joined(results)]

\* one iteration of the loop of extractMany: out is what
\* extractMainTextFromUrl(u) settles with; the last one runs to the end
ExtractManyStep(out) ==
    /\ probe.fn = "extractMany"
    /\ ~probe.done
    /\ LET key == SourceKeys[probe.k]
           results == IF out.ok
                      THEN Append(probe.results, [key |-> key, len |-> out.len])
                      ELSE probe.results
           errors == IF out.ok THEN probe.errors
                     ELSE Append(probe.errors, [url |-> key, error |-> out.error])
       IN  probe' =
             IF probe.k < Len(SourceKeys)
             THEN [probe EXCEPT !.k = @ + 1, !.tried = @ + 1,
                      !.results = results, !.errors = errors]
             ELSE [probe EXCEPT !.tried = @ + 1, !.results = results,
                      !.errors = errors, !.done = TRUE,
                      !.out = manyOutcome(results, errors)]
    /\ UNCHANGED <<NUM_QUESTIONS, WEBHOOK_URL, finishVariant, attempts,
                   start, delivery, resp>>

\* one iteration of the extraction loop of the combined mode: the first
\* throw, of the extractor or of the length test, leaves the loop for the
\* catch that answers 500
CombinedExtractStep(out) ==
    /\ probe.fn = "combinedExtraction"
    /\ ~probe.done
    /\ LET key == SourceKeys[probe.k]
           texts == Append(probe.results, [key |-> key, len |-> out.len])
       IN  probe' =
             IF ~out.ok
             THEN [probe EXCEPT !.tried = @ + 1, !.done = TRUE,
                      !.errors = Append(@, [url |-> key, error |-> out.error]),
                      !.out = [threw |-> TRUE, detail |-> out.error, texts |-> <<>>]]
             ELSE IF out.len < MinTextLen
             THEN [probe EXCEPT !.tried = @ + 1, !.done = TRUE, !.results = texts,
                      !.out = [threw |-> TRUE, detail |-> "ExtractionInsufficient",
                               texts |-> <<>>]]
             ELSE IF probe.k < Len(SourceKeys)
             THEN [probe EXCEPT !.k = @ + 1, !.tried = @ + 1, !.results = texts]
             ELSE [probe EXCEPT !.tried = @ + 1, !.done = TRUE, !.results = texts,
                      !.out = [threw |-> FALSE, detail |-> "", texts |-> joined(texts)]]
    /\ UNCHANGED <<NUM_QUESTIONS, WEBHOOK_URL, finishVariant, attempts,
                   start, delivery, resp>>

(***************************************************************************)
(* Two requests of /api/start-test in flight.  The locals of a handler     *)
(* (keys, texts, banks) live in its own activation: start is the handler   *)
(* the event loop runs, probe.start the one that is suspended at an await  *)
(* or has not been called yet.                                             *)
(***************************************************************************)
OtherName == <<"A", "n", "a">>
ConcurrentInputs ==
    { StartInput(GoodName, GoodDni, RequiredPhrase, "maridaje"),
      StartInput(OtherName, GoodDni, RequiredPhrase, "all") }
ConcurrentIds == { "uuid-1", "uuid-2" }

Suspended(st) == [fn |-> "suspended", done |-> FALSE, start |-> st]

\* a request arrives for a handler that was not called yet
ConcurrentStart(input) == start.pc = "idle" /\ StartRequest(input)

\* the handler that ran yields at its await or has answered, and the event
\* loop goes on with the other one
Resume ==
    /\ probe.fn = "suspended"
    /\ probe.start # start
    /\ start' = probe.start
    /\ probe' = Suspended(start)
    /\ UNCHANGED <<NUM_QUESTIONS, WEBHOOK_URL, finishVariant, attempts,
                   delivery, resp>>

(***************************************************************************)
(* A helper applied on its own to an argument.                             *)
(***************************************************************************)
NoProbe == [fn |-> "none", done |-> FALSE]

ApplyAllocateCounts ==
    /\ probe.fn = "allocateCounts"
    /\ ~probe.done
    /\ probe' = [probe EXCEPT !.done = TRUE, !.out = allocateCounts(probe.arg)]
    /\ UNCHANGED <<NUM_QUESTIONS, WEBHOOK_URL, finishVariant, attempts,
                   start, delivery, resp>>

ApplyPercentOf ==
    /\ probe.fn = "percentOf"
    /\ ~probe.done
    /\ probe' = [probe EXCEPT !.done = TRUE,
                              !.out = percentOf(probe.score, probe.total)]
    /\ UNCHANGED <<NUM_QUESTIONS, WEBHOOK_URL, finishVariant, attempts,
                   start, delivery, resp>>

\* strings a generated prompt or option may be: up to MaxTokens pieces, each
\* an enumeration label, a word or a blank
StripTokens == {<<"A", ")", " ">>, <<"1", ".", " ">>, <<"t">>, <<" ">>}

RECURSIVE flatten(_)
flatten(toks) == IF toks = <<>> THEN <<>> ELSE Head(toks) \o flatten(Tail(toks))

StripInputs ==
    { flatten(toks) : toks \in UNION { [1..n -> StripTokens] : n \in 0..MaxTokens } }

ApplyStripLeadingLabel ==
    /\ probe.fn = "stripLeadingLabel"
    /\ ~probe.done
    /\ probe' = [probe EXCEPT !.done = TRUE, !.out = stripLeadingLabel(probe.arg)]
    /\ UNCHANGED <<NUM_QUESTIONS, WEBHOOK_URL, finishVariant, attempts,
                   start, delivery, resp>>

\* a bank of n questions with pairwise distinct ids
bankOf(n) == [i \in 1..n |-> [id |-> i]]

\* shuffle(bank).slice(0, need): bank is the caller's array, which the
\* copy `[...arr]` leaves as it is
ApplyShuffle ==
    /\ probe.fn = "shuffle"
    /\ ~probe.done
    /\ probe' = [probe EXCEPT !.done = TRUE,
                    !.shuffled = shuffle(probe.bank, probe.rnd),
                    !.selection = slice(shuffle(probe.bank, probe.rnd), probe.need)]
    /\ UNCHANGED <<NUM_QUESTIONS, WEBHOOK_URL, finishVariant, attempts,
                   start, delivery, resp>>

ApplyGenerateQuestionBank ==
    /\ probe.fn = "generateQuestionBank"
    /\ ~probe.done
    /\ probe' = [probe EXCEPT !.done = TRUE,
                    !.out = generateQuestionBank(probe.parsed, probe.rnd, probe.num)]
    /\ UNCHANGED <<NUM_QUESTIONS, WEBHOOK_URL, finishVariant, attempts,
                   start, delivery, resp>>

(***************************************************************************)
(* The server: an empty store, no request made yet.                        *)
(***************************************************************************)
Init ==
    /\ NUM_QUESTIONS \in 0..MaxNumQuestions
    /\ WEBHOOK_URL \in {"", "https://hook"}
    /\ finishVariant \in {"awaited", "detached"}
    /\ attempts = <<>>
    /\ start = IdleStart
    /\ delivery = NoDelivery
    /\ resp = NoResp
    /\ probe = NoProbe

Next ==
    \/ \E input \in StartInputs : StartCall(input)
    \/ \E out \in ExtractOutcomes : StartExtracted(out)
    \/ /\ start.pc = "generate"
       /\ \E result \in GenResults(NUM_QUESTIONS) : StartGeneratedSingle(result)
    \/ /\ start.pc = "generate"
       /\ \E result \in GenResults(NUM_QUESTIONS) : StartGeneratedNext(result)
    \/ /\ start.pc = "generate"
       /\ \E result \in GenResults(NUM_QUESTIONS) : StartGeneratedLast(result)
    \/ \E a \in AttemptIds, c \in ChoiceInputs :
          \E q \in QuestionIdsFor(attempts, a) : RecordAnswer(a, q, c)
    \/ \E a \in AttemptIds : FinishCall(a)
    \/ \E o \in DeliveryOutcomes : DeliverySettles(o)

Spec == Init /\ [][Next]_vars

(***************************************************************************)
(* allocateCounts on its own, for every total up to MaxTotal.              *)
(***************************************************************************)
InitAlloc ==
    /\ NUM_QUESTIONS = 0
    /\ WEBHOOK_URL = ""
    /\ finishVariant = "awaited"
    /\ attempts = <<>>
    /\ start = IdleStart
    /\ delivery = NoDelivery
    /\ resp = NoResp
    /\ \E t \in 0..MaxTotal :
          probe = [fn |-> "allocateCounts", done |-> FALSE, arg |-> t,
                   out |-> [k \in SingleSources |-> 0]]

NextAlloc == ApplyAllocateCounts

SpecAlloc == InitAlloc /\ [][NextAlloc]_vars

(***************************************************************************)
(* percentOf on its own, for every score of every deck up to MaxDeckSize.  *)
(***************************************************************************)
InitPercent ==
    /\ NUM_QUESTIONS = 0
    /\ WEBHOOK_URL = ""
    /\ finishVariant = "awaited"
    /\ attempts = <<>>
    /\ start = IdleStart
    /\ delivery = NoDelivery
    /\ resp = NoResp
    /\ \E total \in 1..MaxDeckSize : \E score \in 0..total :
          probe = [fn |-> "percentOf", done |-> FALSE, score |-> score,
                   total |-> total, out |-> 0]

NextPercent == ApplyPercentOf

SpecPercent == InitPercent /\ [][NextPercent]_vars

(***************************************************************************)
(* extractMainTextFromUrl on its own, for every course of its requests.    *)
(***************************************************************************)
InitFetch ==
    /\ NUM_QUESTIONS = 0
    /\ WEBHOOK_URL = ""
    /\ finishVariant = "awaited"
    /\ attempts = <<>>
    /\ start = IdleStart
    /\ delivery = NoDelivery
    /\ resp = NoResp
    /\ probe = FetchStart

NextFetch ==
    \/ \E o \in FetchOutcomes : FetchAttempt(o)
    \/ BodyOverdue
    \/ \E body \in Bodies : FetchBody(body)

SpecFetch == InitFetch /\ [][NextFetch]_vars

(***************************************************************************)
(* stripLeadingLabel on its own, for every string of StripInputs.          *)
(***************************************************************************)
InitStrip ==
    /\ NUM_QUESTIONS = 0
    /\ WEBHOOK_URL = ""
    /\ finishVariant = "awaited"
    /\ attempts = <<>>
    /\ start = IdleStart
    /\ delivery = NoDelivery
    /\ resp = NoResp
    /\ \E s \in StripInputs :
          probe = [fn |-> "stripLeadingLabel", done |-> FALSE, arg |-> s,
                   out |-> <<>>]

NextStrip == ApplyStripLeadingLabel

SpecStrip == InitStrip /\ [][NextStrip]_vars

(***************************************************************************)
(* shuffle(bank).slice(0, need) on its own, for every bank of up to        *)
(* MaxBank questions, every need up to its size and every course of draws. *)
(***************************************************************************)
InitShuffle ==
    /\ NUM_QUESTIONS = 0
    /\ WEBHOOK_URL = ""
    /\ finishVariant = "awaited"
    /\ attempts = <<>>
    /\ start = IdleStart
    /\ delivery = NoDelivery
    /\ resp = NoResp
    /\ \E n \in 0..MaxBank : \E need \in 0..n : \E rnd \in Draws(n) :
          probe = [fn |-> "shuffle", done |-> FALSE, arg |-> bankOf(n),
                   bank |-> bankOf(n), need |-> need, rnd |-> rnd,
                   shuffled |-> <<>>, selection |-> <<>>]

NextShuffle == ApplyShuffle

SpecShuffle == InitShuffle /\ [][NextShuffle]_vars

(***************************************************************************)
(* The extraction of the three sources on its own, by extractMany and by   *)
(* the loop of the combined mode, for every outcome of every source.       *)
(***************************************************************************)
InitMany ==
    /\ NUM_QUESTIONS = 0
    /\ WEBHOOK_URL = ""
    /\ finishVariant = "awaited"
    /\ attempts = <<>>
    /\ start = IdleStart
    /\ delivery = NoDelivery
    /\ resp = NoResp
    /\ \E fn \in {"extractMany", "combinedExtraction"} : probe = ManyStart(fn)

NextMany ==
    \/ \E out \in ManyOutcomes : ExtractManyStep(out)
    \/ \E out \in ManyOutcomes : CombinedExtractStep(out)

SpecMany == InitMany /\ [][NextMany]_vars

(***************************************************************************)
(* generateQuestionBank on its own, from the parsed response on, for every *)
(* target count up to MaxNumQuestions, every response of GenResponses and  *)
(* every course of the draws of its shuffle.                               *)
(***************************************************************************)
InitGenerate ==
    /\ NUM_QUESTIONS \in 0..MaxNumQuestions
    /\ WEBHOOK_URL = ""
    /\ finishVariant = "awaited"
    /\ attempts = <<>>
    /\ start = IdleStart
    /\ delivery = NoDelivery
    /\ resp = NoResp
    /\ \E parsed \in GenResponses(NUM_QUESTIONS) :
          \E rnd \in Draws(NUM_QUESTIONS + 1) :
             probe = [fn |-> "generateQuestionBank", done |-> FALSE,
                      num |-> NUM_QUESTIONS, parsed |-> parsed, rnd |-> rnd,
                      out |-> GenErr("", 0)]

NextGenerate == ApplyGenerateQuestionBank

SpecGenerate == InitGenerate /\ [][NextGenerate]_vars

(***************************************************************************)
(* Two candidates at once: two starts that interleave at their awaits,     *)
(* and answers and finish on the attempts they store.                      *)
(***************************************************************************)
InitConcurrent ==
    /\ NUM_QUESTIONS = 1
    /\ WEBHOOK_URL = ""
    /\ finishVariant = "awaited"
    /\ attempts = <<>>
    /\ start = IdleStart
    /\ delivery = NoDelivery
    /\ resp = NoResp
    /\ probe = Suspended(IdleStart)

NextConcurrent ==
    \/ \E input \in ConcurrentInputs : ConcurrentStart(input)
    \/ Resume
    \/ \E out \in ExtractOutcomes : StartExtracted(out)
    \/ /\ start.pc = "generate"
       /\ \E result \in GenResults(NUM_QUESTIONS) : StartGeneratedSingle(result)
    \/ /\ start.pc = "generate"
       /\ \E result \in GenResults(NUM_QUESTIONS) : StartGeneratedNext(result)
    \/ /\ start.pc = "generate"
       /\ \E result \in GenResults(NUM_QUESTIONS) : StartGeneratedLast(result)
    \/ \E a \in ConcurrentIds, c \in ChoiceInputs :
          \E q \in QuestionIdsFor(attempts, a) : RecordAnswer(a, q, c)
    \/ \E a \in ConcurrentIds : FinishCall(a)

SpecConcurrent == InitConcurrent /\ [][NextConcurrent]_vars

(***************************************************************************)
(* The server under the scheduling its timers guarantee.  postJSON arms an *)
(* abort timer that stays armed until the call has settled, so a delivery  *)
(* in flight settles at the latest with the abort.  The await of           *)
(* extractMainTextFromUrl and the await of the generation call are left    *)
(* without fairness: no timer of the code covers the reading of a source   *)
(* body or the generation request, so they settle only if the other side   *)
(* answers.                                                                *)
(***************************************************************************)
DeliveryTimesOut == DeliverySettles("timeout")

SpecLive == Init /\ [][Next]_vars /\ WF_vars(DeliveryTimesOut)

(***************************************************************************)
(* Properties.                                                             *)
(***************************************************************************)
ValidLetters == { <<"A">>, <<"B">>, <<"C">>, <<"D">> }
validLetter(c) == toUpperCase(trim(c)) \in ValidLetters
inDeck(att, q) == \E i \in 1..Len(att.questions) : att.questions[i].id = q
answersFor(att, q) == {i \in 1..Len(att.answers) : att.answers[i].questionId = q}

ValidChoiceInputs == {c \in ChoiceInputs : validLetter(c)}
InvalidChoiceInputs == ChoiceInputs \ ValidChoiceInputs

\* C1 -- recordAnswer is idempotent and the first answer wins: the first
\* valid letter recorded for a question of the deck is stored with its index
\* and letter, and a later valid letter for that question, equal or not,
\* leaves the attempt as it was and is still acknowledged.
C1_FirstAnswerWins ==
    [][\A a \in DOMAIN attempts, c \in ValidChoiceInputs :
         \A n \in 1..Len(attempts[a].questions) :
            LET q == attempts[a].questions[n].id
            IN  RecordAnswer(a, q, c)
                => /\ resp'.status = 200
                   /\ IF answersFor(attempts[a], q) = {}
                      THEN \E i \in 1..Len(attempts'[a].answers) :
                             /\ answersFor(attempts'[a], q) = {i}
                             /\ <<attempts'[a].answers[i].choiceLetter>>
                                   = toUpperCase(trim(c))
                             /\ toLetter(attempts'[a].answers[i].choiceIndex)
                                   = attempts'[a].answers[i].choiceLetter
                             /\ Len(attempts'[a].answers)
                                   = Len(attempts[a].answers) + 1
                      ELSE attempts' = attempts]_vars

\* a second, different letter for an answered question was acknowledged
C1_Witness ==
    /\ resp.op = "answer" /\ resp.status = 200 /\ resp.already
    /\ \E a \in DOMAIN attempts :
          /\ Len(attempts[a].answers) = 1
          /\ attempts[a].answers[1].choiceIndex # resp.idx

\* a step of the finish handler for attempt a; every response of the
\* handler is a finish response, or none yet when it waits for the delivery
finishStepOf(a) == resp'.op \in {"finish", "none"} /\ FinishCall(a)

\* C2 -- finish gating: finish of an attempt with fewer answers than
\* questions fails with IncompleteAttempt, computes and dispatches nothing
\* and leaves the attempt as it is; finish of an attempt with as many answers
\* as questions succeeds (it answers 200, or is waiting for the delivery it
\* has issued before it answers).
C2_FinishGating ==
    [][\A a \in DOMAIN attempts :
         finishStepOf(a)
         => IF Len(attempts[a].answers) < Len(attempts[a].questions)
            THEN /\ resp' = ErrResp("finish", 400, "IncompleteAttempt")
                 /\ attempts' = attempts
                 /\ delivery' = delivery
            ELSE \/ /\ resp'.status = 200
                    /\ resp'.body.total = Len(attempts[a].questions)
                 \/ /\ resp' = NoResp
                    /\ delivery'.state = "inflight"
                    /\ delivery'.pending.total = Len(attempts[a].questions)]_vars

\* finish was refused with one of two questions answered
C2_Witness ==
    /\ resp = ErrResp("finish", 400, "IncompleteAttempt")
    /\ \E a \in DOMAIN attempts :
          Len(attempts[a].answers) = 1 /\ Len(attempts[a].questions) = 2

\* C3 -- the percent reported for score correct answers out of total is
\* round(100 * score / total), the integer p with p - 1/2 <= 100 * score /
\* total < p + 1/2.
C3_PercentIsRounded ==
    (probe.fn = "percentOf" /\ probe.done)
    => /\ (2 * probe.out - 1) * probe.total <= 200 * probe.score
       /\ 200 * probe.score < (2 * probe.out + 1) * probe.total

\* C4 -- no two questions of the deck of a stored attempt share an id.
C4_DeckIdsUnique ==
    \A a \in DOMAIN attempts :
       \A i, j \in 1..Len(attempts[a].questions) :
          i # j => attempts[a].questions[i].id # attempts[a].questions[j].id

\* C5 -- the three counts of allocateCounts(T) add up to T and each one is
\* less than 1 away from T / 3: it is floor(T / 3) or floor(T / 3) + 1.
C5_AllocationSums ==
    (probe.fn = "allocateCounts" /\ probe.done)
    => /\ probe.out[SourceKeys[1]] + probe.out[SourceKeys[2]]
            + probe.out[SourceKeys[3]] = probe.arg
       /\ \A k \in SingleSources :
             /\ 3 * probe.out[k] - probe.arg < 3
             /\ probe.arg - 3 * probe.out[k] < 3
             /\ probe.out[k] \in {probe.arg \div 3, (probe.arg \div 3) + 1}

\* a total that leaves a remainder of two was allocated
C5_Witness ==
    /\ probe.fn = "allocateCounts" /\ probe.done
    /\ probe.arg % 3 = 2 /\ probe.arg > 3

invalidStartInput(input) ==
    \/ Len(trim(input.candidateName)) < MinNameLen
    \/ Len(trim(input.dni)) < MinDniLen
    \/ ~(Range(trim(input.dni)) \subseteq DniChars)
    \/ input.startCommand # "Realizar Test"

\* C6 -- a start with an invalid name, identifier or phrase is rejected
\* before any I/O: its handler is over at once, has issued no source fetch
\* and no generation call, and has stored no attempt.
C6_RejectedBeforeIO ==
    (start.pc # "idle" /\ invalidStartInput(start.input))
    => /\ start.pc = "done"
       /\ start.fetches = 0
       /\ start.gens = 0
       /\ attempts = <<>>
       /\ resp.op = "start" => resp.status = 400

\* a start with the phrase in the wrong case was rejected
C6_Witness ==
    /\ start.pc = "done"
    /\ start.input.startCommand = "realizar test"
    /\ resp = ErrResp("start", 400, "PhraseInvalid")
    /\ start.fetches = 0

\* a deck of the configured size whose questions passed the validation of
\* the generator (what the prompts hold after normalisation is C28)
completeDeck(deck) ==
    /\ Len(deck) = NUM_QUESTIONS
    /\ \A i \in 1..Len(deck) :
          /\ Len(deck[i].options) = 4
          /\ deck[i].correctIndex \in 0..3

\* C7 -- start is atomic with respect to the store: a step that ends a
\* start with a failure leaves the store as it was, and the store only
\* changes by a start that answers 200 with a complete deck.
C7_StartAtomic ==
    [][/\ (resp'.op = "start" /\ resp'.status # 200) => attempts' = attempts
       /\ (DOMAIN attempts' # DOMAIN attempts)
          => /\ resp'.op = "start" /\ resp'.status = 200
             /\ DOMAIN attempts' = DOMAIN attempts \cup {resp'.attemptId}
             /\ completeDeck(attempts'[resp'.attemptId].questions)
             /\ attempts'[resp'.attemptId].answers = <<>>]_vars

\* a combined start failed on its last generation call
C7_Witness ==
    /\ resp = ErrResp("start", 500, "QuestionInvalid")
    /\ start.pc = "done"
    /\ start.gens = 3
    /\ attempts = <<>>

\* the answer handler refused with this error and stored nothing
refusedWith(error) == resp'.error = error /\ attempts' = attempts

\* C8 -- recordAnswer fails with AttemptNotFound for an unknown attempt,
\* else with QuestionNotFound for a question that is not in the deck, else
\* with InvalidChoice for a letter outside A-D, and stores nothing in any of
\* the three cases: a step is not one of such a request unless it refuses
\* with that error.
C8_AnswerErrors ==
    [][\A a \in AttemptIds :
         IF a \notin DOMAIN attempts
         THEN \A c \in ChoiceInputs : \A q \in QuestionIdsFor(attempts, a) :
                 refusedWith("AttemptNotFound") \/ ~RecordAnswer(a, q, c)
         ELSE /\ \A c \in ChoiceInputs :
                    \A q \in QuestionIdsFor(attempts, a) :
                       inDeck(attempts[a], q) \/ refusedWith("QuestionNotFound")
                          \/ ~RecordAnswer(a, q, c)
              /\ \A c \in InvalidChoiceInputs :
                    \A n \in 1..Len(attempts[a].questions) :
                       refusedWith("InvalidChoice")
                          \/ ~RecordAnswer(a, attempts[a].questions[n].id, c)]_vars

\* a letter outside A-D was refused for an attempt that holds an answer
C8_Witness ==
    /\ resp = ErrResp("answer", 400, "InvalidChoice")
    /\ \E a \in DOMAIN attempts : Len(attempts[a].answers) > 0

\* C9 -- the outcome of the delivery never fails finish: when the delivery
\* settles, whatever its outcome, the handler that waited for it answers 200
\* with the summary and the payload it computed, and the response the
\* detached handler gave already stays as it is.
C9_DeliveryNeverFailsFinish ==
    [][\A o \in DeliveryOutcomes :
         DeliverySettles(o)
         => IF delivery.awaited
            THEN /\ resp'.op = "finish" /\ resp'.status = 200
                 /\ resp'.body = delivery.pending
                 /\ resp'.body = payloadOf(delivery.attemptId,
                                           attempts[delivery.attemptId])
            ELSE resp' = resp]_vars

\* finish answered 200 although the delivery timed out
C9_Witness ==
    /\ resp.op = "finish" /\ resp.status = 200
    /\ delivery.state = "timeout"
    /\ finishVariant = "awaited" => ~resp.webhook.ok

fetching == probe.fn = "extractMainTextFromUrl"
is5xx(o) == o.kind = "response" /\ o.status >= 500
is4xx(o) == o.kind = "response" /\ o.status >= 400 /\ o.status <= 499
followed(k) == k < Len(probe.requests)
lastRequest == probe.requests[Len(probe.requests)]

\* C11 (as stated): a request is followed by another one only if it ended
\* in a 5xx response or in the timeout abort; a 4xx response or any other
\* failure of the request ends the retrieval.
C11_RetryOnlyOn5xxOrTimeout ==
    fetching =>
        \A k \in 1..Len(probe.requests) :
            followed(k) =>
                is5xx(probe.requests[k]) \/ probe.requests[k] = Aborted

\* C11 (amended): a request is followed by another one exactly when it
\* ended in a 5xx response or was rejected - by the timeout abort or by any
\* other failure of fetch - and fewer than three requests were made; a
\* response below 500 ends the retrieval, and a 4xx one surfaces as a
\* download failure carrying its status, with no further request.
C11_RetryOn5xxOrAnyRejection ==
    fetching =>
        /\ \A k \in 1..Len(probe.requests) :
              followed(k) =>
                  is5xx(probe.requests[k])
                      \/ probe.requests[k] \in {Aborted, Rejected}
        /\ Len(probe.requests) > 0 =>
              /\ (is5xx(lastRequest) \/ lastRequest \in {Aborted, Rejected})
                    /\ Len(probe.requests) < tries
                 => probe.pc = "fetch"
              /\ is4xx(lastRequest) =>
                    /\ probe.pc = "done"
                    /\ probe.out = Threw("No se pudo descargar la URL:",
                                         [message |-> "", n |-> lastRequest.status])

\* a rejection other than the abort was followed by a second request, and a
\* 4xx response then ended the retrieval
C11_Witness ==
    /\ fetching
    /\ Len(probe.requests) = 2
    /\ probe.requests[1] = Rejected
    /\ is4xx(probe.requests[2])
    /\ probe.pc = "done"

\* C12: a retrieval issues at most three requests; when every request ends
\* in a 5xx response or a timeout it issues exactly three and then fails
\* with the download error that carries the cause of the last one; a
\* returned response is the last request.
C12_AtMostThreeRequests ==
    fetching =>
        /\ Len(probe.requests) <= 3
        /\ (/\ probe.pc = "done"
            /\ \A k \in 1..Len(probe.requests) :
                  is5xx(probe.requests[k]) \/ probe.requests[k] = Aborted)
           => /\ Len(probe.requests) = 3
              /\ probe.out = Threw("No se pudo descargar la URL (url):",
                                   lastErrOf(lastRequest))
        /\ \A k \in 1..Len(probe.requests) :
              ok(probe.requests[k]) => ~followed(k) /\ probe.pc # "fetch"

\* three requests were made, a 5xx, a timeout and a 5xx, and the retrieval
\* failed with the cause of the third
C12_Witness ==
    /\ fetching
    /\ probe.pc = "done"
    /\ probe.requests = <<Response(500), Aborted, Response(503)>>
    /\ probe.out.cause = [message |-> "HTTP", n |-> 503]

\* C13: stripping the labels of a string that stripLeadingLabel returned
\* changes nothing: stripLeadingLabel(stripLeadingLabel(s)) =
\* stripLeadingLabel(s) for every s, three stacked labels included.
C13_StripIdempotent ==
    (probe.fn = "stripLeadingLabel" /\ probe.done) =>
        stripLeadingLabel(probe.out) = probe.out

\* C14: for a bank with pairwise distinct ids and at least n items,
\* shuffle(bank).slice(0, n) holds exactly n items, each an item of the
\* bank, no id twice; shuffle returns a permutation of the bank and leaves
\* the bank itself as it was.
C14_SelectionWithoutReplacement ==
    (probe.fn = "shuffle" /\ probe.done) =>
        /\ Len(probe.selection) = probe.need
        /\ \A i \in 1..Len(probe.selection) : probe.selection[i] \in Range(probe.arg)
        /\ \A i, j \in 1..Len(probe.selection) :
              probe.selection[i].id = probe.selection[j].id => i = j
        /\ Len(probe.shuffled) = Len(probe.arg)
        /\ Range(probe.shuffled) = Range(probe.arg)
        /\ probe.bank = probe.arg

\* two of four questions were selected, in an order the bank did not have
C14_Witness ==
    /\ probe.fn = "shuffle"
    /\ probe.done
    /\ Len(probe.arg) = 4
    /\ probe.need = 2
    /\ probe.selection[1].id > probe.selection[2].id

\* what the extraction of several sources did
extractsMany == probe.fn \in {"extractMany", "combinedExtraction"}
noShortText == \A i \in 1..Len(probe.results) : probe.results[i].len >= MinTextLen
tolerant ==
    /\ probe.tried = Len(SourceKeys)
    /\ probe.out.threw <=> probe.results = <<>>
    /\ probe.out.threw => probe.out.detail = probe.errors[1].error
    /\ ~probe.out.threw => probe.out.texts = joined(probe.results)

C16_MinLengthGate ==
    [][\A out \in ExtractOutcomes :
          (out.ok /\ out.len < MinTextLen /\ StartExtracted(out)) =>
              /\ resp' = ErrResp("start", 500, "ExtractionInsufficient")
              /\ start'.pc = "done"
              /\ start'.gens = 0
              /\ attempts' = <<>>]_vars

\* a combined start failed on the short text of its second source, with no
\* generation call and no attempt
C16_Witness ==
    /\ resp = ErrResp("start", 500, "ExtractionInsufficient")
    /\ start.pc = "done"
    /\ start.input.source = "all"
    /\ start.fetches = 2
    /\ start.gens = 0
    /\ attempts = <<>>

\* the ways to take Len(bank) distinct positions of the parsed questions
positionsOf(bank, questions) ==
    { f \in [1..Len(bank) -> 1..Len(questions)] :
        /\ \A i, j \in 1..Len(bank) : f[i] = f[j] => i = j
        /\ \A i \in 1..Len(bank) : bank[i] = questions[f[i]] }

\* C17: generateQuestionBank fails or returns exactly NUM_QUESTIONS items;
\* it fails when the parsed response holds fewer, and the items it returns
\* are those of NUM_QUESTIONS distinct positions of the parsed response.
C17_ExactlyTargetCount ==
    (probe.fn = "generateQuestionBank" /\ probe.done) =>
        /\ probe.out.ok =>
              /\ Len(probe.out.bank) = probe.num
              /\ positionsOf(probe.out.bank, probe.parsed.questions) # {}
        /\ Len(probe.parsed.questions) < probe.num =>
              /\ ~probe.out.ok
              /\ probe.parsed.kind = "array"
                    => probe.out.error = "GenerationInsufficient"

\* two of three returned questions were selected, the first of them not
\* the first one returned
C17_Witness ==
    /\ probe.fn = "generateQuestionBank"
    /\ probe.done
    /\ probe.out.ok
    /\ probe.num = 2
    /\ Len(probe.parsed.questions) = 3
    /\ probe.out.bank[1] # probe.parsed.questions[1]

\* how many questions of a deck come from a source
fromSource(deck, key) == Cardinality({i \in 1..Len(deck) : deck[i].source = key})

\* C18: a stored deck holds exactly NUM_QUESTIONS questions; the deck of a
\* combined start holds, of every source, as many as allocateCounts gives
\* it, and the deck of a single-source start holds questions of that
\* source only.
C18_DeckHoldsTargetCount ==
    \A a \in DOMAIN attempts :
        LET att == attempts[a]
        IN  /\ Len(att.questions) = NUM_QUESTIONS
            /\ Len(att.urls) > 1 =>
                  \A key \in SingleSources :
                      fromSource(att.questions, key) = allocateCounts(NUM_QUESTIONS)[key]
            /\ Len(att.urls) = 1 =>
                  fromSource(att.questions, att.urls[1]) = NUM_QUESTIONS

\* a combined start stored a deck of two questions, one of the first and
\* one of the second source
C18_Witness ==
    /\ NUM_QUESTIONS = 2
    /\ TheAttempt \in DOMAIN attempts
    /\ Len(attempts[TheAttempt].urls) = 3
    /\ Len(attempts[TheAttempt].questions) = 2
    /\ fromSource(attempts[TheAttempt].questions, "procedimiento") = 1
    /\ fromSource(attempts[TheAttempt].questions, "maridaje") = 1

\* the decks a start would have stored had the generated items carried
\* other valid correctIndex values, the text and the draws being the same
reKeyed(deck) ==
    { [i \in 1..Len(deck) |-> [deck[i] EXCEPT !.correctIndex = cis[i]]] :
        cis \in [1..Len(deck) -> 0..3] }

\* C19: the response of a successful start shows of every question its id,
\* its prompt and its options and nothing else, so the response is the
\* same for every deck that differs from the stored one in correctIndex
\* values only.
C19_AnswerKeyWithheld ==
    (resp.op = "start" /\ resp.status = 200) =>
        LET deck == attempts[resp.attemptId].questions
        IN  /\ Len(resp.questions) = Len(deck)
            /\ \A i \in 1..Len(resp.questions) :
                  DOMAIN resp.questions[i] = {"id", "prompt", "options"}
            /\ \A d \in reKeyed(deck) :
                  StartOk(resp.attemptId, resp.sourceTitle, d) = resp

\* a start answered with two questions whose stored correctIndex values
\* differ
C19_Witness ==
    /\ resp.op = "start"
    /\ resp.status = 200
    /\ Len(resp.questions) = 2
    /\ attempts[resp.attemptId].questions[1].correctIndex
          # attempts[resp.attemptId].questions[2].correctIndex

\* C20: with no collector configured, finish on an attempt whose questions
\* are all answered issues no delivery call and answers 200 with the
\* candidate summary and the result payload.
C20_NoCollectorNoDelivery ==
    [][\A a \in AttemptIds :
          (/\ WEBHOOK_URL = ""
           /\ a \in DOMAIN attempts
           /\ ~incomplete(attempts[a])
           /\ FinishCall(a)) =>
              /\ resp'.op = "finish"
              /\ resp'.status = 200
              /\ resp'.body = payloadOf(a, attempts[a])
              /\ delivery' = NoDelivery]_vars

\* finish answered 200 for a deck of two questions, no collector being
\* configured and no delivery call issued
C20_Witness ==
    /\ WEBHOOK_URL = ""
    /\ resp.op = "finish"
    /\ resp.status = 200
    /\ resp.body.total = 2
    /\ delivery = NoDelivery

\* C21: the handler of /api/answer runs from its lookup to its push without
\* yielding, so requests interleave as whole steps; whatever the order of
\* the requests for one question, of requests for other questions and of
\* finish, an attempt never holds two answers for one question id, the
\* answer a step adds is the answer of the request of that step, for a
\* question of the deck, and no stored answer is changed or removed.
C21_DuplicateSubmissionsSafe ==
    [][\A a \in DOMAIN attempts :
          /\ a \in DOMAIN attempts'
          /\ LET old == attempts[a].answers
                 new == attempts'[a].answers
             IN  /\ Len(new) >= Len(old)
                 /\ Len(new) <= Len(old) + 1
                 /\ SubSeq(new, 1, Len(old)) = old
                 /\ \A i, j \in 1..Len(new) :
                       new[i].questionId = new[j].questionId => i = j
                 /\ Len(new) = Len(old) + 1 =>
                       /\ resp' = AnswerOk(new[Len(new)].choiceIndex, FALSE)
                       /\ inDeck(attempts[a], new[Len(new)].questionId)
                       /\ new[Len(new)].choiceLetter
                             = toLetter(new[Len(new)].choiceIndex)]_vars

\* two questions are answered, and the last request, a duplicate with
\* another letter than the stored one, was acknowledged
C21_Witness ==
    /\ resp.op = "answer" /\ resp.status = 200 /\ resp.already
    /\ \E a \in DOMAIN attempts :
          /\ Len(attempts[a].answers) = 2
          /\ \A i \in 1..2 : attempts[a].answers[i].choiceIndex # resp.idx

\* the deck and the metadata of an attempt
frozenPart(att) ==
    [questions |-> att.questions, dni |-> att.dni,
     candidateName |-> att.candidateName, urls |-> att.urls, title |-> att.title,
     startedAt |-> att.startedAt]

\* the deck holds questions of the banks the running handler collected, or
\* of a bank the generation call may return
ofOwnBanks(deck) ==
    \A i \in 1..Len(deck) :
        \/ \E b \in 1..Len(start.banks) : \E j \in 1..Len(start.banks[b]) :
              deck[i] = tag(start.banks[b][j], SourceKeys[b])
        \/ \E result \in GenResults(NUM_QUESTIONS) : \E j \in 1..Len(result.bank) :
              deck[i] = tag(normalizeQuestion(result.bank[j]), deck[i].source)

\* C22: with two starts interleaving at their awaits and answers and finish
\* on the attempts they store, no step changes the deck or the metadata of
\* a stored attempt, an answer request changes no attempt but the one it
\* names, and a start stores its attempt under a new id with the name and
\* the sources of its own request and with questions of its own banks.
C22_AttemptsIndependent ==
    [][/\ \A a \in DOMAIN attempts :
             /\ a \in DOMAIN attempts'
             /\ frozenPart(attempts'[a]) = frozenPart(attempts[a])
       /\ \A a \in DOMAIN attempts : \A c \in ValidChoiceInputs :
             \A n \in 1..Len(attempts[a].questions) :
                 RecordAnswer(a, attempts[a].questions[n].id, c) =>
                     \A b \in DOMAIN attempts \ {a} : attempts'[b] = attempts[b]
       /\ \A a \in DOMAIN attempts' \ DOMAIN attempts :
             /\ attempts'[a].candidateName = start.input.candidateName
             /\ attempts'[a].urls = keysOf(start.input.source)
             /\ attempts'[a].answers = <<>>
             /\ Len(attempts'[a].questions) = NUM_QUESTIONS
             /\ ofOwnBanks(attempts'[a].questions)
             /\ \A i \in 1..Len(attempts'[a].questions) :
                   attempts'[a].questions[i].source \in Range(start.keys)]_vars

\* both starts stored their attempt, the one for the single source first,
\* and only the attempt of the combined start was answered
C22_Witness ==
    /\ DOMAIN attempts = ConcurrentIds
    /\ attempts["uuid-1"].urls = <<"maridaje">>
    /\ attempts["uuid-1"].candidateName = GoodName
    /\ attempts["uuid-1"].answers = <<>>
    /\ attempts["uuid-2"].urls = SourceKeys
    /\ attempts["uuid-2"].candidateName = OtherName
    /\ Len(attempts["uuid-2"].answers) = 1

\* C23: finish changes nothing in the store, and an attempt that finish
\* accepts - it is stored and has as many answers as questions - is never
\* changed again by any later request, so after a successful finish the
\* deck and the answers stay what they were.
C23_NoMutationAfterFinish ==
    [][/\ \A a \in AttemptIds : finishStepOf(a) => attempts' = attempts
       /\ \A a \in DOMAIN attempts :
             finishError(attempts, a) = "" =>
                 /\ a \in DOMAIN attempts'
                 /\ attempts'[a] = attempts[a]]_vars

\* the payload of a finished attempt of two questions was delivered, and a
\* later answer to one of its questions was acknowledged
C23_Witness ==
    /\ delivery.state = "2xx"
    /\ resp.op = "answer" /\ resp.status = 200 /\ resp.already
    /\ delivery.attemptId \in DOMAIN attempts
    /\ Len(attempts[delivery.attemptId].questions) = 2
    /\ Len(attempts[delivery.attemptId].answers) = 2

\* C24: the result payload of an attempt is built and dispatched once:
\* when a delivery was made for an attempt, no later step issues another
\* delivery for that attempt.
C24_PayloadBuiltOnce ==
    [][\A a \in AttemptIds :
          (delivery.attemptId = a /\ delivery.state \notin {"none", "inflight"})
              => ~(delivery'.state = "inflight" /\ delivery'.attemptId = a)]_vars

\* C25: an attempt that passes the completeness check of finish, as many
\* answers as questions, holds an answer for every question of its deck, so
\* the lookup of the scoring finds one for each and finish does not fail on
\* a missing answer.
C25_CompleteMeansAllAnswered ==
    \A a \in DOMAIN attempts :
        ~incomplete(attempts[a]) =>
            /\ \A i \in 1..Len(attempts[a].questions) :
                  findAnswer(attempts[a].answers, attempts[a].questions[i].id) # 0
            /\ finishError(attempts, a) = ""

\* finish has scored a deck of two questions, the second answered first
C25_Witness ==
    /\ resp.op = "finish" /\ resp.status = 200
    /\ Len(attempts[resp.attemptId].questions) = 2
    /\ attempts[resp.attemptId].answers[1].questionId
          = attempts[resp.attemptId].questions[2].id

\* C26: the timeout bounds the whole attempt, the reading of the body
\* included: once timeoutMs have passed since the request began, the body
\* is not being read any more - the request was aborted and the attempt
\* counted as a failure to retry.
C26_TimeoutCoversBody ==
    fetching => ~(probe.pc = "body" /\ probe.overdue)

\* C27: every outbound call is bounded by a timeout of its own, so a start
\* that waits for a source or for the generative service eventually
\* answers, whatever the other side does.
C27_StartAlwaysResponds ==
    (start.pc \in {"extract", "generate"}) ~> (start.pc = "done")

\* C28: every question of every stored deck has a non-empty id, a non-empty
\* prompt, exactly 4 options and a correctIndex that is an integer of 0..3.
wellFormed(q) ==
    /\ q.id[2] # ""
    /\ q.prompt # <<>>
    /\ Len(q.options) = 4
    /\ q.correctIndex \in 0..3

C28_StoredDecksWellFormed ==
    \A a \in DOMAIN attempts :
       \A i \in 1..Len(attempts[a].questions) : wellFormed(attempts[a].questions[i])

\* C29: a delivery is never retried.  Whatever the request to the collector
\* settles with (2xx, non-2xx, network error, timeout), the finish that
\* issued it has made one request and makes no other.
C29_DeliveryNeverRetried ==
    /\ delivery.requests <= 1
    /\ delivery.state # "none" => delivery.requests = 1

C29_Witness ==
    /\ delivery.state \in {"non2xx", "neterror", "timeout"}
    /\ delivery.requests = 1
    /\ resp.op = "finish" /\ resp.status = 200

\* C30: the units of the remainder go to procedimiento first, then to
\* maridaje, never to recetario: procedimiento >= maridaje >= recetario,
\* procedimiento is floor(T/3) + 1 exactly when T mod 3 >= 1, maridaje is
\* floor(T/3) + 1 exactly when T mod 3 = 2, and recetario is floor(T/3).
C30_RemainderPriority ==
    (probe.fn = "allocateCounts" /\ probe.done)
    => LET T == probe.arg
           base == T \div 3
       IN  /\ probe.out["procedimiento"] >= probe.out["maridaje"]
           /\ probe.out["maridaje"] >= probe.out["recetario"]
           /\ probe.out["procedimiento"] = (IF T % 3 >= 1 THEN base + 1 ELSE base)
           /\ probe.out["maridaje"] = (IF T % 3 = 2 THEN base + 1 ELSE base)
           /\ probe.out["recetario"] = base

C30_Witness ==
    /\ probe.fn = "allocateCounts" /\ probe.done
    /\ probe.arg % 3 = 1
    /\ probe.out["procedimiento"] = probe.out["maridaje"] + 1
    /\ probe.out["maridaje"] = probe.out["recetario"]

\* C31: the store never evicts and the deck is fixed at start.  Whatever the
\* step, an attempt that is stored stays stored with the deck, the candidate
\* data and the startedAt it was stored with, its answers only grow at the
\* end, and neither an answer nor a finish that names it is refused with
\* AttemptNotFound.
C31_StoreNeverEvicts ==
    [][\A a \in DOMAIN attempts :
          /\ a \in DOMAIN attempts'
          /\ frozenPart(attempts'[a]) = frozenPart(attempts[a])
          /\ Len(attempts'[a].answers) >= Len(attempts[a].answers)
          /\ SubSeq(attempts'[a].answers, 1, Len(attempts[a].answers))
                = attempts[a].answers
          /\ FinishCall(a) => resp'.error # "AttemptNotFound"
          /\ \A q \in QuestionIdsFor(attempts, a) : \A c \in ChoiceInputs :
                RecordAnswer(a, q, c) => resp'.error # "AttemptNotFound"]_vars

\* a second attempt was stored after the first one, and a finish of the
\* first one is answered with its result
C31_Witness ==
    /\ DOMAIN attempts = ConcurrentIds
    /\ attempts["uuid-1"].startedAt # attempts["uuid-2"].startedAt
    /\ Len(attempts["uuid-1"].answers) = Len(attempts["uuid-1"].questions)
    /\ resp.op = "finish" /\ resp.status = 200 /\ resp.attemptId = "uuid-1"

\* the waits between attempt 1 and attempt n + 1: 500 ms x 1 + ... + 500 ms x n
RECURSIVE delaysBetween(_)
delaysBetween(n) == IF n <= 0 THEN 0 ELSE delaysBetween(n - 1) + 500 * n

\* C32: the backoff waits are delays between attempts.  After the i-th
\* failed attempt (i = 1, 2) the retrieval waits 500 ms x i before the next
\* one, and once the last permitted attempt has failed the error is raised
\* with no further wait: a retrieval that failed i times has waited
\* 500 x (1 + ... + i) ms while another attempt follows, and the waits of
\* the first two failures only once the third has failed.
C32_BackoffOnlyBetweenAttempts ==
    fetching =>
        probe.slept = delaysBetween(IF probe.i < tries THEN probe.i ELSE tries - 1)

\* C33: in every reachable state the answers of a stored attempt are well
\* formed: each names a question of the deck of that attempt, holds a
\* choiceIndex of 0..3 and the upper-case letter A-D of that index, whatever
\* case or blanks were sent, no two answers name the same question, and
\* there are never more answers than questions.
C33_AnswersWellFormed ==
    \A a \in DOMAIN attempts :
        LET att == attempts[a]
        IN  /\ Len(att.answers) <= Len(att.questions)
            /\ \A i \in 1..Len(att.answers) :
                  /\ inDeck(att, att.answers[i].questionId)
                  /\ att.answers[i].choiceIndex \in 0..3
                  /\ att.answers[i].choiceLetter
                        = <<"A", "B", "C", "D">>[att.answers[i].choiceIndex + 1]
                  /\ \A j \in 1..Len(att.answers) :
                        att.answers[j].questionId = att.answers[i].questionId
                           => i = j

\* a deck of two questions is fully answered, one of the answers sent as
\* " b " and stored as B
C33_Witness ==
    \E a \in DOMAIN attempts :
        /\ Len(attempts[a].questions) = 2
        /\ Len(attempts[a].answers) = 2
        /\ attempts[a].answers[1].choiceLetter = "A"
        /\ attempts[a].answers[2] =
              [questionId |-> attempts[a].questions[1].id, choiceIndex |-> 1,
               choiceLetter |-> "B"]
        /\ resp = AnswerOk(1, FALSE)

\* C34: every created attempt can be completed.  A stored attempt that
\* holds an answer for each question of its deck is one that finish
\* accepts: it is not refused as incomplete.
C34_AnsweredDeckFinishes ==
    \A a \in DOMAIN attempts :
        (\A i \in 1..Len(attempts[a].questions) :
            findAnswer(attempts[a].answers, attempts[a].questions[i].id) # 0)
        => finishError(attempts, a) = ""

\* C35: on every successful finish, whatever the target count (0 included),
\* the score is between 0 and the total and the percent is an integer of
\* 0..100.
C35_ScoreAndPercentInRange ==
    (resp.op = "finish" /\ resp.status = 200)
    => /\ resp.body.score \in 0..resp.body.total
       /\ resp.body.percent \in 0..100

====
